---- MODULE Spec2Model ----
(***************************************************************************)
(* ArtixNewsParser (src/artix_news.py): the HTML-to-text converter.  The   *)
(* tokenizer (html.parser.HTMLParser) delivers a stream of tag-open,       *)
(* tag-close and text events to handle_starttag, handle_endtag and         *)
(* handle_data; the model draws that stream from bounded alphabets.  After *)
(* the parse, run post-processes the output (fix_dates, colorize) and      *)
(* prints it.                                                              *)
(*                                                                         *)
(* A Python str is modelled as a sequence of one-character strings, a list *)
(* of attributes as a sequence of <<key, value>> pairs, a stack entry as   *)
(* <<tag, attrs>>.                                                         *)
(***************************************************************************)
EXTENDS Integers, Sequences, FiniteSets, TLC

VARIABLES
    out,          \* self.out
    _stack,       \* self._stack
    _inside_pre,  \* self._inside_pre
    _ignore,      \* self._ignore
    raised,       \* an exception left the last handler (IndexError)
    call,         \* history: the append call the last handler made
    ev,           \* history: the last event delivered by the tokenizer
    nev,          \* history: number of events delivered
    run,          \* history: length of the current run of unsuppressed </p>, </div>
    shadow,       \* history: <<tag, suppress-matching>> of the elements the stream has open
    extras,       \* history: number of </div> events that matched no open element
    malformed,    \* history: some other close event matched no open element
    emitted,      \* history: per stack entry, the "[News] " prefixes emitted under it
    pc,           \* the statement of run (or of its caller) to execute next
    printed,      \* the texts print wrote to standard output
    stages,       \* history: <<step, keyword, argument>> of the steps completed
    parsed        \* history: <<self.out>> as it was when feed returned

vars == <<out, _stack, _inside_pre, _ignore, raised, call, ev, nev, run,
          shadow, extras, malformed, emitted, pc, printed, stages, parsed>>

----------------------------------------------------------------------------
(* Bounds *)

\* Events per parse, for each event alphabet.
MaxEvents == 3
MaxSuppressEvents == 6
MaxNewsEvents == 6
MaxTextEvents == 5
MaxDateEvents == 6
MaxPreEvents == 5

MaxScriptEvents == 5
MaxRunEvents == 5
MaxColorizeEvents == 3

\* Depth of the context stack.
MaxDepth == 3

\* Calls of colorize on one parser.
MaxColorize == 2

----------------------------------------------------------------------------
(* Python values *)

None == "None"
True == "True"

\* str.isspace() on one character; the empty string (no character) is not space.
Whitespace == {" ", "\t", "\n", "\r", "\f"}

isspace(c) == c \in Whitespace

RECURSIVE rstrip(_, _)
rstrip(s, chars) ==
    IF s # <<>> /\ s[Len(s)] \in chars
    THEN rstrip(SubSeq(s, 1, Len(s) - 1), chars)
    ELSE s

RECURSIVE lstrip(_, _)
lstrip(s, chars) ==
    IF s # <<>> /\ Head(s) \in chars THEN lstrip(Tail(s), chars) ELSE s

\* str.split('\n'): the lines of s, at least one.
RECURSIVE split(_, _)
split(s, acc) ==
    IF s = <<>> THEN <<acc>>
    ELSE IF Head(s) = "\n" THEN <<acc>> \o split(Tail(s), <<>>)
    ELSE split(Tail(s), Append(acc, Head(s)))

\* '\n'.join(lines)
RECURSIVE join(_)
join(lines) ==
    IF Len(lines) = 0 THEN <<>>
    ELSE IF Len(lines) = 1 THEN lines[1]
    ELSE lines[1] \o <<"\n">> \o join(Tail(lines))

\* re.sub(r'\s+', ' ', text)
RECURSIVE _squeeze_whitespace(_)
_squeeze_whitespace(text) ==
    IF text = <<>> THEN <<>>
    ELSE IF isspace(Head(text))
    THEN <<" ">> \o _squeeze_whitespace(lstrip(text, Whitespace))
    ELSE <<Head(text)>> \o _squeeze_whitespace(Tail(text))

\* The value of the first pair with the key, None without one.
RECURSIVE _get_attr(_, _)
_get_attr(attrs, key) ==
    IF attrs = <<>> THEN None
    ELSE IF Head(attrs)[1] = key THEN Head(attrs)[2]
    ELSE _get_attr(Tail(attrs), key)

----------------------------------------------------------------------------
(* The append algorithm *)

\* _append without the cap on blank lines (lines 76-79).
_append_uncapped(o, text) ==
    IF text = <<>> THEN o
    ELSE
        LET last_char == IF o # <<>> THEN o[Len(o)] ELSE ""
        IN  IF isspace(last_char)
            THEN IF text[1] \in {" ", "\t"}
                 THEN rstrip(o, {" ", "\t"}) \o text
                 ELSE o \o text
            ELSE o \o <<" ">> \o text

\* _append without the early return on empty text (lines 62-63).
_append_unguarded(o, text) ==
    LET last_char == IF o # <<>> THEN o[Len(o)] ELSE ""
        first_char == IF text # <<>> THEN text[1] ELSE ""
    IN  IF isspace(last_char)
        THEN IF first_char \in {" ", "\t"}
             THEN rstrip(o, {" ", "\t"}) \o text
             ELSE IF last_char = "\n" /\ first_char = "\n"
                  THEN rstrip(o, Whitespace) \o <<"\n", "\n">> \o lstrip(text, {"\n"})
                  ELSE o \o text
        ELSE o \o <<" ">> \o text

\* The append whose last branch assigns instead of extending (= for +=).
_append_overwrite(o, text) ==
    IF text = <<>> THEN o
    ELSE
        LET last_char == IF o # <<>> THEN o[Len(o)] ELSE ""
        IN  IF isspace(last_char)
            THEN IF text[1] \in {" ", "\t"}
                 THEN rstrip(o, {" ", "\t"}) \o text
                 ELSE IF last_char = "\n" /\ text[1] = "\n"
                      THEN rstrip(o, Whitespace) \o <<"\n", "\n">> \o lstrip(text, {"\n"})
                      ELSE o \o text
            ELSE <<" ">> \o text

\* The append without the separating space of its last branch.
_append_unseparated(o, text) ==
    IF text = <<>> THEN o
    ELSE
        LET last_char == IF o # <<>> THEN o[Len(o)] ELSE ""
        IN  IF isspace(last_char)
            THEN IF text[1] \in {" ", "\t"}
                 THEN rstrip(o, {" ", "\t"}) \o text
                 ELSE IF last_char = "\n" /\ text[1] = "\n"
                      THEN rstrip(o, Whitespace) \o <<"\n", "\n">> \o lstrip(text, {"\n"})
                      ELSE o \o text
            ELSE o \o text

_append(o, text) ==
    IF text = <<>> THEN o
    ELSE
        LET last_char == IF o # <<>> THEN o[Len(o)] ELSE ""
        IN  IF isspace(last_char)
            THEN IF text[1] \in {" ", "\t"}
                 THEN rstrip(o, {" ", "\t"}) \o text
                 ELSE IF last_char = "\n" /\ text[1] = "\n"
                      THEN rstrip(o, Whitespace) \o <<"\n", "\n">> \o lstrip(text, {"\n"})
                      ELSE o \o text
            ELSE o \o <<" ">> \o text

_append_raw(o, text) == o \o text

\* A parser state with self._append(text) applied, the call recorded.
do_append(s, text) ==
    [s EXCEPT !.out = _append(s.out, text), !.call = <<"_append", text>>]

do_append_raw(s, text) ==
    [s EXCEPT !.out = _append_raw(s.out, text), !.call = <<"_append_raw", text>>]

----------------------------------------------------------------------------
(* Literals *)

\* Stand-in for the bullet U+2022, one non-whitespace character.
Bullet == "*"

S_News == <<"\n", "[", "N", "e", "w", "s", "]", " ">>

S_Date == <<"[", "D", "a", "t", "e", "]", " ">>

SuppressClasses == {"right", "sidebar"}

NoCall == <<"none", <<>>>>

----------------------------------------------------------------------------
(* The handlers: each maps the parser state before the event to the state  *)
(* after it.                                                               *)

\* The handler with the suppression test of lines 90-91 left out.
handle_starttag_unsuppressed(s, tag, attrs) ==
    LET s1 == [s EXCEPT !._stack = Append(@, <<tag, attrs>>)]
        cls == _get_attr(attrs, "class")
    IN  IF tag = "a" THEN do_append(s1, <<" ">>)
        ELSE IF tag = "br" THEN do_append(s1, <<"\n">>)
        ELSE IF tag = "code" THEN do_append(s1, <<"\n", "\n">>)
        ELSE IF tag = "pre" THEN [s1 EXCEPT !._inside_pre = TRUE]
        ELSE IF tag = "div" /\ cls \in SuppressClasses THEN [s1 EXCEPT !._ignore = TRUE]
        ELSE IF tag = "li" THEN do_append(s1, <<" ", Bullet, " ">>)
        ELSE s1

handle_starttag(s, tag, attrs) ==
    LET s1 == [s EXCEPT !._stack = Append(@, <<tag, attrs>>)]
        cls == _get_attr(attrs, "class")
    IN  IF s._ignore THEN s1
        ELSE IF tag = "a" THEN do_append(s1, <<" ">>)
        ELSE IF tag = "br" THEN do_append(s1, <<"\n">>)
        ELSE IF tag = "code" THEN do_append(s1, <<"\n", "\n">>)
        ELSE IF tag = "pre" THEN [s1 EXCEPT !._inside_pre = TRUE]
        ELSE IF tag = "div" /\ cls \in SuppressClasses THEN [s1 EXCEPT !._ignore = TRUE]
        ELSE IF tag = "li" THEN do_append(s1, <<" ", Bullet, " ">>)
        ELSE s1

\* The pop without the emptiness check of line 110.
pop_stack_unchecked(s) ==
    IF s._stack # <<>>
    THEN [s EXCEPT !._stack = SubSeq(@, 1, Len(@) - 1)]
    ELSE [s EXCEPT !.raised = TRUE]

\* list.pop() raises IndexError on an empty list; the handler pops only a
\* non-empty stack.
pop_stack(s) ==
    IF s._stack # <<>>
    THEN [s EXCEPT !._stack = SubSeq(@, 1, Len(@) - 1)]
    ELSE s

\* The handler whose reset test knows the class right only.
handle_endtag_right_only(s, tag) ==
    LET n == Len(s._stack)
        attrs == IF n > 0 THEN s._stack[n][2] ELSE <<>>
        s1 == pop_stack(s)
        cls == _get_attr(attrs, "class")
        s2 == IF tag = "div" /\ cls = "right"
              THEN [s1 EXCEPT !._ignore = FALSE]
              ELSE s1
    IN  IF s2._ignore THEN s2
        ELSE IF tag \in {"p", "div"} THEN do_append(s2, <<"\n", "\n">>)
        ELSE IF tag = "a" THEN do_append(s2, <<" ">>)
        ELSE IF tag \in {"li", "ul", "ol", "code"} THEN do_append(s2, <<"\n">>)
        ELSE IF tag = "pre" THEN do_append([s2 EXCEPT !._inside_pre = FALSE], <<"\n">>)
        ELSE s2

handle_endtag(s, tag) ==
    LET n == Len(s._stack)
        attrs == IF n > 0 THEN s._stack[n][2] ELSE <<>>
        s1 == pop_stack(s)
        cls == _get_attr(attrs, "class")
        s2 == IF tag = "div" /\ cls \in SuppressClasses
              THEN [s1 EXCEPT !._ignore = FALSE]
              ELSE s1
    IN  IF s2._ignore THEN s2
        ELSE IF tag \in {"p", "div"} THEN do_append(s2, <<"\n", "\n">>)
        ELSE IF tag = "a" THEN do_append(s2, <<" ">>)
        ELSE IF tag \in {"li", "ul", "ol", "code"} THEN do_append(s2, <<"\n">>)
        ELSE IF tag = "pre" THEN do_append([s2 EXCEPT !._inside_pre = FALSE], <<"\n">>)
        ELSE s2

\* '\n'.join(['\t' + line for line in data.split('\n')])
indent(data) ==
    LET lines == split(data, <<>>)
    IN  join([i \in 1..Len(lines) |-> <<"\t">> \o lines[i]])

\* The current element and its parent, as handle_data reads them.
current_tag(stack) == IF Len(stack) >= 1 THEN stack[Len(stack)][1] ELSE ""

parent_tag(stack) == IF Len(stack) >= 2 THEN stack[Len(stack) - 1][1] ELSE ""

parent_attrs(stack) == IF Len(stack) >= 2 THEN stack[Len(stack) - 1][2] ELSE <<>>

\* No cleansing of the text (line 139 left out).
cleanse_nothing(raw) == raw

\* data.lstrip()
cleanse(raw) == lstrip(raw, Whitespace)

news_text(data) == S_News \o data

\* The timestamp text sent through the generic squeezing.
date_text_squeezed(data) == S_Date \o _squeeze_whitespace(data)

date_text(data) == S_Date \o data

handle_data(s, raw) ==
    LET n == Len(s._stack)
        tag == current_tag(s._stack)
        tag_parent == parent_tag(s._stack)
        attrs_parent == parent_attrs(s._stack)
        data == cleanse(raw)
        squeezed_data == _squeeze_whitespace(data)
    IN  IF s._ignore \/ tag = "h0" THEN s
        ELSE IF /\ tag = "p" /\ tag_parent = "div"
                /\ _get_attr(attrs_parent, "t") = None
                /\ _get_attr(attrs_parent, "class") = "news"
        THEN [do_append(s, news_text(data))
                EXCEPT !._stack[n - 1][2] = Append(@, <<"t", True>>)]
        ELSE IF /\ tag = "a" /\ tag_parent = "div"
                /\ _get_attr(attrs_parent, "class") = "timestamp"
        THEN do_append(s, date_text(data))
        ELSE IF s._inside_pre \/ tag = "code" THEN do_append_raw(s, indent(data))
        ELSE IF tag = "pre" THEN do_append(s, <<"\n">>)
        ELSE IF tag = "script" THEN s
        ELSE IF squeezed_data # <<" ">> \/ (s.out # <<>> /\ s.out[Len(s.out)] # "\n")
        THEN do_append(s, squeezed_data)
        ELSE s

----------------------------------------------------------------------------
(* The parse: the tokenizer delivers one event per step.                   *)

\* ArtixNewsParser.__init__
Init ==
    /\ out = <<>>
    /\ _stack = <<>>
    /\ _inside_pre = FALSE
    /\ _ignore = FALSE
    /\ raised = FALSE
    /\ call = NoCall
    /\ ev = [kind |-> "none", tag |-> "", attrs |-> <<>>, data |-> <<>>]
    /\ nev = 0
    /\ run = 0
    /\ shadow = <<>>
    /\ extras = 0
    /\ malformed = FALSE
    /\ emitted = <<>>
    /\ pc = "parse"
    /\ printed = <<>>
    /\ stages = <<>>
    /\ parsed = <<>>

cur ==
    [out |-> out, _stack |-> _stack, _inside_pre |-> _inside_pre,
     _ignore |-> _ignore, raised |-> raised, call |-> NoCall]

Commit(s, e) ==
    /\ out' = s.out
    /\ _stack' = s._stack
    /\ _inside_pre' = s._inside_pre
    /\ _ignore' = s._ignore
    /\ raised' = s.raised
    /\ call' = s.call
    /\ ev' = e
    /\ nev' = nev + 1
    /\ UNCHANGED <<pc, printed, stages, parsed>>

Ready(max) == pc = "parse" /\ nev < max /\ ~raised

IsSuppressDiv(tag, attrs) ==
    tag = "div" /\ _get_attr(attrs, "class") \in SuppressClasses

IsPrefix(p, s) == Len(p) <= Len(s) /\ SubSeq(s, 1, Len(p)) = p

OpenTag(Elems, max) ==
    \E e \in Elems :
        /\ Ready(max)
        /\ Len(_stack) < MaxDepth
        /\ Commit(handle_starttag(cur, e[1], e[2]),
                  [kind |-> "open", tag |-> e[1], attrs |-> e[2], data |-> <<>>])
        /\ run' = 0
        /\ shadow' = Append(shadow, <<e[1], IsSuppressDiv(e[1], e[2])>>)
        /\ emitted' = Append(emitted, 0)
        /\ UNCHANGED <<extras, malformed>>

CloseTag(Tags, max) ==
    \E tag \in Tags :
        LET s == handle_endtag(cur, tag)
            matches == shadow # <<>> /\ shadow[Len(shadow)][1] = tag
        IN  /\ Ready(max)
            /\ Commit(s, [kind |-> "close", tag |-> tag, attrs |-> <<>>, data |-> <<>>])
            /\ run' = IF tag \in {"p", "div"} /\ ~s._ignore THEN run + 1 ELSE 0
            /\ shadow' = IF matches THEN SubSeq(shadow, 1, Len(shadow) - 1) ELSE shadow
            /\ extras' = IF ~matches /\ tag = "div" THEN extras + 1 ELSE extras
            /\ malformed' = (malformed \/ (~matches /\ tag # "div"))
            /\ emitted' = SubSeq(emitted, 1, Len(s._stack))

TextData(Data, max) ==
    \E d \in Data :
        LET s == handle_data(cur, d)
            n == Len(_stack)
        IN  /\ Ready(max)
            /\ Commit(s, [kind |-> "text", tag |-> "", attrs |-> <<>>, data |-> d])
            /\ run' = 0
            /\ emitted' = IF s.call[1] = "_append" /\ IsPrefix(S_News, s.call[2]) /\ n >= 2
                          THEN [emitted EXCEPT ![n - 1] = @ + 1]
                          ELSE emitted
            /\ UNCHANGED <<shadow, extras, malformed>>

----------------------------------------------------------------------------
(* Post-processing and output *)

\* '\033', the escape character, as one character.
Esc == "ESC"

GREEN == <<Esc, "[", "3", "2", "m">>

RED == <<Esc, "[", "3", "3", "m">>

BLUE == <<Esc, "[", "3", "4", "m">>

RESET == <<Esc, "[", "0", "m">>

S_NewsMark == <<"[", "N", "e", "w", "s", "]">>

S_DateMark == <<"[", "D", "a", "t", "e", "]">>

Drop(s, k) == SubSeq(s, k + 1, Len(s))

\* str.replace(old, new): the occurrences of old are found left to right and
\* do not overlap; an empty old matches before every character and at the end.
RECURSIVE replace(_, _, _)
replace(s, old, new) ==
    IF s = <<>> THEN (IF old = <<>> THEN new ELSE <<>>)
    ELSE IF old = <<>> THEN new \o <<s[1]>> \o replace(Tail(s), old, new)
    ELSE IF IsPrefix(old, s) THEN new \o replace(Drop(s, Len(old)), old, new)
    ELSE <<s[1]>> \o replace(Tail(s), old, new)

\* A colorize that leaves an output alone once it holds the wrapped keyword.
colorize_idempotent(o, keyword, color) ==
    LET new == IF color = "green" THEN GREEN \o keyword \o RESET
               ELSE IF color = "blue" THEN BLUE \o keyword \o RESET
               ELSE IF color = "red" THEN RED \o keyword \o RESET
               ELSE keyword
    IN  IF new # keyword /\ Len(new) <= Len(o)
           /\ \E i \in 1..(Len(o) - Len(new) + 1) : SubSeq(o, i, i + Len(new) - 1) = new
        THEN o
        ELSE replace(o, keyword, new)

colorize(o, keyword, color) ==
    LET new == IF color = "green" THEN GREEN \o keyword \o RESET
               ELSE IF color = "blue" THEN BLUE \o keyword \o RESET
               ELSE IF color = "red" THEN RED \o keyword \o RESET
               ELSE keyword
    IN  replace(o, keyword, new)

\* The longest prefix of s that a run of '.' matches: up to the first '\n'.
RECURSIVE dotstar(_)
dotstar(s) ==
    IF s = <<>> \/ s[1] = "\n" THEN <<>> ELSE <<s[1]>> \o dotstar(Tail(s))

\* The longest prefix of s that \s+ (or \s*) matches.
RECURSIVE spaces(_)
spaces(s) ==
    IF s = <<>> \/ ~isspace(s[1]) THEN <<>> ELSE <<s[1]>> \o spaces(Tail(s))

\* re.sub(r'\s+(\[Date\]\s?)(.*)', ' [' + GREEN + r'\2' + RESET + ']', out):
\* a match starts at a whitespace character whose run ends at "[Date]"; \s?
\* takes one whitespace character if there is one, and group 2 the rest of
\* the line.
RECURSIVE fix_dates(_)
fix_dates(o) ==
    IF o = <<>> THEN <<>>
    ELSE LET rest == Drop(o, Len(spaces(o)))
             after == Drop(rest, Len(S_DateMark))
             tail == IF after # <<>> /\ isspace(after[1]) THEN Tail(after) ELSE after
             group2 == dotstar(tail)
         IN  IF isspace(o[1]) /\ IsPrefix(S_DateMark, rest)
             THEN <<" ", "[">> \o GREEN \o group2 \o RESET \o <<"]">>
                      \o fix_dates(Drop(tail, Len(group2)))
             ELSE <<o[1]>> \o fix_dates(Tail(o))

Contains(s, sub) ==
    \E i \in 1..(Len(s) - Len(sub) + 1) : SubSeq(s, i, i + Len(sub) - 1) = sub

\* re.compile(r'\[News\].*').findall(s): each match starts at the marker.
RECURSIVE findall_from_marker(_)
findall_from_marker(s) ==
    IF s = <<>> THEN <<>>
    ELSE IF IsPrefix(S_NewsMark, s)
    THEN <<dotstar(s)>> \o findall_from_marker(Drop(s, Len(dotstar(s))))
    ELSE findall_from_marker(Tail(s))

\* re.compile(r'.*\[News\].*').findall(s): at each position the first '.*'
\* runs to the end of the line and backtracks to a marker; a match takes the
\* rest of the line, and the search resumes where the match ended.
RECURSIVE findall(_)
findall(s) ==
    IF s = <<>> THEN <<>>
    ELSE IF Contains(dotstar(s), S_NewsMark)
    THEN <<dotstar(s)>> \o findall(Drop(s, Len(dotstar(s))))
    ELSE findall(Tail(s))

\* The text handed to the built-in print.
print(o, summary) == IF summary THEN join(findall(o)) ELSE o

----------------------------------------------------------------------------
(* Event alphabets *)

Class(c) == <<<<"class", c>>>>

\* Suppression: plain and suppress-matching div, p with and without the class.
SuppressElems ==
    {<<"div", <<>>>>, <<"div", Class("right")>>, <<"div", Class("sidebar")>>,
     <<"p", <<>>>>, <<"p", Class("right")>>}

SuppressTags == {"div", "p"}

SuppressData == {<<"x">>}

NextSuppress ==
    \/ OpenTag(SuppressElems, MaxSuppressEvents)
    \/ CloseTag(SuppressTags, MaxSuppressEvents)
    \/ TextData(SuppressData, MaxSuppressEvents)

SpecSuppress == Init /\ [][NextSuppress]_vars

\* News entries: div.news, also carrying an attribute named t of its own
\* (valueless, as in <div class="news" t>), its p children and a link.
NewsElems ==
    {<<"div", Class("news")>>,
     <<"div", <<<<"class", "news">>, <<"t", None>>>>>>,
     <<"p", <<>>>>, <<"a", <<>>>>}

NewsTags == {"div", "p", "a"}

NewsData == {<<"x">>, <<"x", "\n", "\n", "\n">>}

NextNews ==
    \/ OpenTag(NewsElems, MaxNewsEvents)
    \/ CloseTag(NewsTags, MaxNewsEvents)
    \/ TextData(NewsData, MaxNewsEvents)

SpecNews == Init /\ [][NextNews]_vars

\* Inline and block text: links, list items, line breaks, paragraphs.
TextElems == {<<"p", <<>>>>, <<"a", <<>>>>, <<"li", <<>>>>, <<"br", <<>>>>}

TextTags == {"p", "div", "a", "li"}

TextStrings == {<<" ">>, <<" ", "\n", " ">>, <<"x">>, <<"x", " ", " ", "y">>}

NextText ==
    \/ OpenTag(TextElems, MaxTextEvents)
    \/ CloseTag(TextTags, MaxTextEvents)
    \/ TextData(TextStrings, MaxTextEvents)

SpecText == Init /\ [][NextText]_vars

\* Timestamps: an a inside div.timestamp.
DateElems == {<<"div", Class("timestamp")>>, <<"div", <<>>>>, <<"a", <<>>>>}

DateTags == {"div", "a"}

DateData == {<<"1">>, <<" ", "1">>, <<"1", " ", " ", "2">>, <<"1", "\n", "2">>}

NextDate ==
    \/ OpenTag(DateElems, MaxDateEvents)
    \/ CloseTag(DateTags, MaxDateEvents)
    \/ TextData(DateData, MaxDateEvents)

SpecDate == Init /\ [][NextDate]_vars

\* Pre-formatted text: pre, code and an inline child.
PreElems == {<<"pre", <<>>>>, <<"code", <<>>>>, <<"b", <<>>>>}

PreTags == {"pre", "code", "b"}

PreData == {<<"x">>, <<"x", "\n", "y">>, <<"x", "\n">>, <<"x", " ", " ", "y">>}

NextPre ==
    \/ OpenTag(PreElems, MaxPreEvents)
    \/ CloseTag(PreTags, MaxPreEvents)
    \/ TextData(PreData, MaxPreEvents)

SpecPre == Init /\ [][NextPre]_vars

\* Every element, close tag and text of the alphabets above, with script and
\* the first-heading tag h0.
Elems ==
    SuppressElems \cup NewsElems \cup TextElems \cup DateElems \cup PreElems
        \cup {<<"script", <<>>>>, <<"h0", <<>>>>}

Tags ==
    SuppressTags \cup NewsTags \cup TextTags \cup DateTags \cup PreTags
        \cup {"script", "h0", "ul"}

Data == SuppressData \cup NewsData \cup TextStrings \cup DateData \cup PreData

Next ==
    \/ OpenTag(Elems, MaxEvents)
    \/ CloseTag(Tags, MaxEvents)
    \/ TextData(Data, MaxEvents)

Spec == Init /\ [][Next]_vars

\* Script elements inside and outside pre-formatted text and suppression.
ScriptElems ==
    {<<"script", <<>>>>, <<"pre", <<>>>>, <<"p", <<>>>>, <<"div", Class("right")>>}

ScriptTags == {"script", "pre", "div"}

ScriptData == {<<"x">>, <<"x", "\n", "y">>}

NextScript ==
    \/ OpenTag(ScriptElems, MaxScriptEvents)
    \/ CloseTag(ScriptTags, MaxScriptEvents)
    \/ TextData(ScriptData, MaxScriptEvents)

SpecScript == Init /\ [][NextScript]_vars

----------------------------------------------------------------------------
(* The program: run fetches the page, parses it, post-processes the output *)
(* and prints it, one statement per step.                                  *)

\* The statements of run with the print moved before the colorization.
run_next_print_early(step) ==
    CASE step = "fetch" -> "parse"
      [] step = "parse" -> "fix_dates"
      [] step = "fix_dates" -> "print"
      [] step = "print" -> "colorize"
      [] step = "colorize" -> "done"

\* The statement that follows each statement of run.
run_next(step) ==
    CASE step = "fetch" -> "parse"
      [] step = "parse" -> "fix_dates"
      [] step = "fix_dates" -> "colorize"
      [] step = "colorize" -> "print"
      [] step = "print" -> "done"

\* run before its first statement.
InitRun ==
    /\ out = <<>>
    /\ _stack = <<>>
    /\ _inside_pre = FALSE
    /\ _ignore = FALSE
    /\ raised = FALSE
    /\ call = NoCall
    /\ ev = [kind |-> "none", tag |-> "", attrs |-> <<>>, data |-> <<>>]
    /\ nev = 0
    /\ run = 0
    /\ shadow = <<>>
    /\ extras = 0
    /\ malformed = FALSE
    /\ emitted = <<>>
    /\ pc = "fetch"
    /\ printed = <<>>
    /\ stages = <<>>
    /\ parsed = <<>>

parser_vars == <<_stack, _inside_pre, _ignore, call, ev, nev, run, shadow,
                 extras, malformed, emitted>>

Done(step, keyword, arg) == stages' = Append(stages, <<step, keyword, arg>>)

\* urlopen(req).read() and the decoding of the page: either may raise.
Fetch ==
    /\ pc = "fetch"
    /\ \E ok \in BOOLEAN :
        /\ pc' = IF ok THEN run_next("fetch") ELSE "error"
        /\ IF ok THEN Done("fetch", <<>>, "") ELSE UNCHANGED stages
    /\ UNCHANGED <<out, raised, printed, parsed, parser_vars>>

\* The tokenizer reports markup it cannot parse: error raises SyntaxError,
\* which leaves feed, unhtml and run.
ParseError ==
    /\ pc = "parse"
    /\ ~raised
    /\ raised' = TRUE
    /\ pc' = "error"
    /\ UNCHANGED <<out, printed, stages, parsed, parser_vars>>

\* feed returns at the end of the page; unhtml returns the parser.
EndParse(then) ==
    /\ pc = "parse"
    /\ ~raised
    /\ pc' = then
    /\ parsed' = <<out>>
    /\ Done("parse", <<>>, "")
    /\ UNCHANGED <<out, raised, printed, parser_vars>>

FixDates ==
    /\ pc = "fix_dates"
    /\ out' = fix_dates(out)
    /\ pc' = run_next("fix_dates")
    /\ Done("fix_dates", <<>>, "")
    /\ UNCHANGED <<raised, printed, parsed, parser_vars>>

ColorizeCalls == Cardinality({i \in DOMAIN stages : stages[i][1] = "colorize"})

Colorize(Keywords, Colors, then) ==
    \E keyword \in Keywords, color \in Colors :
        /\ pc = "colorize"
        /\ ColorizeCalls < MaxColorize
        /\ out' = colorize(out, keyword, color)
        /\ pc' = then
        /\ Done("colorize", keyword, color)
        /\ UNCHANGED <<raised, printed, parsed, parser_vars>>

\* parse_args exits on an unknown option; otherwise print writes the output
\* or its summary.
PrintOut ==
    \E argv \in {"", "--summary", "--bogus"} :
        /\ pc = "print"
        /\ IF argv = "--bogus"
           THEN pc' = "error" /\ UNCHANGED <<printed, stages>>
           ELSE /\ printed' = Append(printed, print(out, argv = "--summary"))
                /\ pc' = run_next("print")
                /\ Done("print", <<>>, argv)
        /\ UNCHANGED <<out, raised, parsed, parser_vars>>

\* The pages of a run: news entries and timestamps.
RunElems ==
    {<<"div", Class("news")>>, <<"div", Class("timestamp")>>,
     <<"p", <<>>>>, <<"a", <<>>>>}

RunTags == {"div", "p", "a"}

\* Text of the page, also text that holds the marker "[News]" itself.
RunData == {<<"x">>, S_NewsMark}

NextRun ==
    \/ Fetch
    \/ OpenTag(RunElems, MaxRunEvents)
    \/ CloseTag(RunTags, MaxRunEvents)
    \/ TextData(RunData, MaxRunEvents)
    \/ ParseError
    \/ EndParse(run_next("parse"))
    \/ FixDates
    \/ Colorize({S_NewsMark}, {"blue"}, run_next("colorize"))
    \/ PrintOut

SpecRun == InitRun /\ [][NextRun]_vars

\* A caller of the parser's interface: unhtml, then calls of colorize.
ColorizeKeywords == {S_NewsMark, <<"x">>}

Colors == {"green", "blue", "red", "pink"}

NextColorize ==
    \/ OpenTag(NewsElems, MaxColorizeEvents)
    \/ CloseTag(NewsTags, MaxColorizeEvents)
    \/ TextData(NewsData, MaxColorizeEvents)
    \/ EndParse("colorize")
    \/ Colorize(ColorizeKeywords, Colors, "colorize")

SpecColorize == Init /\ [][NextColorize]_vars

----------------------------------------------------------------------------
(* Vocabulary of the properties *)

\* Every close event so far named the innermost open element.
WellNested == extras = 0 /\ ~malformed

\* The elements of the stream that were open when the last event arrived
\* (an element is not inside itself).
OpenBefore == IF ev.kind = "open" THEN Len(shadow) - 1 ELSE Len(shadow)

\* The last event lies inside the subtree of an open div.right / div.sidebar.
InsideSuppressedSubtree == \E i \in 1..OpenBefore : shadow[i][2]

\* Some open element of the stream is a div.right / div.sidebar.
SuppressDivOpen == \E i \in DOMAIN shadow : shadow[i][2]

RECURSIVE TrailingNewlines(_)
TrailingNewlines(o) ==
    IF o # <<>> /\ o[Len(o)] = "\n"
    THEN 1 + TrailingNewlines(SubSeq(o, 1, Len(o) - 1))
    ELSE 0

WhitespaceOnly(d) == d # <<>> /\ \A i \in DOMAIN d : isspace(d[i])

\* Text in the current state takes the generic path of handle_data.
GenericPath ==
    /\ ~_ignore
    /\ ~_inside_pre
    /\ current_tag(_stack) \notin {"pre", "code", "script", "h0"}
    /\ ~(/\ current_tag(_stack) = "p" /\ parent_tag(_stack) = "div"
         /\ _get_attr(parent_attrs(_stack), "class") = "news"
         /\ _get_attr(parent_attrs(_stack), "t") = None)
    /\ ~(/\ current_tag(_stack) = "a" /\ parent_tag(_stack) = "div"
         /\ _get_attr(parent_attrs(_stack), "class") = "timestamp")

\* The current element is a p directly inside a div with class news.
InNewsParagraph ==
    /\ current_tag(_stack) = "p"
    /\ parent_tag(_stack) = "div"
    /\ _get_attr(parent_attrs(_stack), "class") = "news"

\* The current element is an a directly inside a div with class timestamp.
InTimestampLink ==
    /\ current_tag(_stack) = "a"
    /\ parent_tag(_stack) = "div"
    /\ _get_attr(parent_attrs(_stack), "class") = "timestamp"

\* Inside a pre element, or the current element is code.
InPreOrCode ==
    \/ \E i \in DOMAIN _stack : _stack[i][1] = "pre"
    \/ current_tag(_stack) = "code"

\* s with the tab characters removed.
RECURSIVE Untab(_)
Untab(s) ==
    IF s = <<>> THEN <<>>
    ELSE IF Head(s) = "\t" THEN Untab(Tail(s))
    ELSE <<Head(s)>> \o Untab(Tail(s))

\* Every line that `added` starts or continues after `before` begins with
\* exactly one tab.
OneTabPerLine(before, added) ==
    /\ (before = <<>> \/ before[Len(before)] = "\n")
            => (added # <<>> /\ added[1] = "\t")
    /\ \A i \in DOMAIN added :
            added[i] = "\n" => (i < Len(added) /\ added[i + 1] = "\t")
    /\ LET o == before \o added
       IN  \A i \in 1..(Len(o) - 1) :
               i >= Len(before) => ~(o[i] = "\t" /\ o[i + 1] = "\t")

----------------------------------------------------------------------------
(* C1 *)

\* C1: in a well-nested token stream, no tag or text event inside the subtree
\* of a div.right / div.sidebar adds anything to the output, also when
\* another such div is nested in it: output resumes only at the close tag
\* of the root div.
C1_SuppressedSubtreeIsSilent ==
    [][(WellNested' /\ InsideSuppressedSubtree') => out' = out]_vars

----------------------------------------------------------------------------
(* C2 *)

\* C2: no event raises an error; a tag-open pushes exactly its
\* (tag, attributes) entry, a tag-close removes exactly the top entry of a
\* non-empty stack and leaves an empty stack empty, a text event keeps the
\* depth of the stack.
C2_StackDiscipline ==
    [][/\ ~raised'
       /\ ev'.kind = "open" => _stack' = Append(_stack, <<ev'.tag, ev'.attrs>>)
       /\ ev'.kind = "close" =>
            _stack' = IF _stack = <<>> THEN <<>>
                      ELSE SubSeq(_stack, 1, Len(_stack) - 1)
       /\ ev'.kind = "text" => Len(_stack') = Len(_stack)]_vars

\* The first event of the parse was a close: it found the stack empty.
C2_Witness ==
    /\ nev = 1
    /\ ev.kind = "close"
    /\ _stack = <<>>
    /\ ~raised

----------------------------------------------------------------------------
(* C3 *)

\* C3: with one extra unmatched </div> in an otherwise well-nested stream, no
\* error is raised and, from then on, the suppression flag is true only
\* while a div.right / div.sidebar of the stream is open: suppression does
\* not stay on after the suppressing div has been closed.  (The converse,
\* that the flag is true whenever such a div is open, depends on which open
\* element the extra </div> is taken to close and is left out.)
C3_ExtraCloseKeepsSuppression ==
    (extras = 1 /\ ~malformed) => (~raised /\ (_ignore => SuppressDivOpen))

----------------------------------------------------------------------------
(* C4 *)

\* C4: after every unsuppressed text event directly inside a p child of a
\* div.news, exactly one "[News] " prefix has been emitted under that div's
\* stack entry: the first such text gets it, no later one does.
C4_NewsPrefixOnce ==
    (ev.kind = "text" /\ ~_ignore /\ InNewsParagraph)
        => emitted[Len(_stack) - 1] = 1

----------------------------------------------------------------------------
(* C5 *)

\* C5 as stated: after k >= 1 consecutive unsuppressed closes of p or div the
\* output ends in at most two newlines, and every close after the first
\* leaves the output as the first one left it.
C5_ClosesIdempotent ==
    [][/\ run' >= 1 => TrailingNewlines(out') <= 2
       /\ (run >= 1 /\ run' = run + 1) => out' = out]_vars

\* C5 amended: after k >= 1 consecutive unsuppressed closes of p or div the
\* output ends in exactly two newlines; the second close removes the
\* whitespace the first one left before them, and every close after the
\* second leaves the output unchanged.
C5_BlankLineCap ==
    [][/\ run' >= 1 => TrailingNewlines(out') = 2
       /\ (run >= 1 /\ run' = run + 1) =>
            out' = rstrip(out, Whitespace) \o <<"\n", "\n">>
       /\ (run >= 2 /\ run' = run + 1) => out' = out]_vars

\* Three closes in a row after some text.
C5_Witness ==
    /\ run = 3
    /\ \E i \in DOMAIN out : out[i] = "x"

----------------------------------------------------------------------------
(* C6 *)

\* C6: after every _append of a text that starts with a space, the character
\* of the output before the appended text is not a space: no run of two
\* spaces at the boundary, whatever the output ended in.
C6_NoDoubleSpaceAtBoundary ==
    (call[1] = "_append" /\ call[2] # <<>> /\ call[2][1] = " ")
        => ~(Len(out) > Len(call[2]) /\ out[Len(out) - Len(call[2])] = " ")

----------------------------------------------------------------------------
(* C7 *)

\* C7: _append of the empty text leaves the output buffer and every other
\* component of the parser state unchanged.
C7_AppendEmptyIsIdentity ==
    [][call' = <<"_append", <<>>>>
         => UNCHANGED <<out, _stack, _inside_pre, _ignore, raised>>]_vars

\* The empty text was appended to an output that ends in a non-whitespace
\* character.
C7_Witness ==
    /\ call = <<"_append", <<>>>>
    /\ out # <<>>
    /\ ~isspace(out[Len(out)])

----------------------------------------------------------------------------
(* C8 *)

\* C8: a whitespace-only text event on the generic path adds at most one
\* space to the output, and none when the output is empty or ends in a
\* newline.
C8_WhitespaceTextAtMostOneSpace ==
    [][(ev'.kind = "text" /\ WhitespaceOnly(ev'.data) /\ GenericPath)
         => \/ out' = out
            \/ /\ out' = out \o <<" ">>
               /\ out # <<>>
               /\ out[Len(out)] # "\n"]_vars

\* A whitespace-only text arrived on the generic path with the output ending
\* in a non-whitespace character.
C8_Witness ==
    /\ ev.kind = "text"
    /\ WhitespaceOnly(ev.data)
    /\ GenericPath
    /\ out # <<>>
    /\ ~isspace(out[Len(out)])

----------------------------------------------------------------------------
(* C9 *)

\* C9 as stated: an unsuppressed text event in an a inside div.timestamp
\* appends "[Date] " and the text content verbatim, after a separating space
\* when the output does not end in whitespace.
C9_DateVerbatim ==
    [][(ev'.kind = "text" /\ ~_ignore' /\ InTimestampLink')
         => out' \in {out \o S_Date \o ev'.data,
                      out \o <<" ">> \o S_Date \o ev'.data}]_vars

\* C9 amended: the text content is appended after "[Date] " with its leading
\* whitespace stripped and otherwise verbatim (not squeezed, not indented).
C9_DateStripped ==
    [][(ev'.kind = "text" /\ ~_ignore' /\ InTimestampLink')
         => LET content == lstrip(ev'.data, Whitespace)
            IN  /\ out' \in {out \o S_Date \o content,
                             out \o <<" ">> \o S_Date \o content}
                /\ UNCHANGED <<_stack, _inside_pre, _ignore>>]_vars

\* A timestamp text with a run of whitespace inside it was appended.
C9_Witness ==
    /\ ev.kind = "text"
    /\ ~_ignore
    /\ InTimestampLink
    /\ ev.data = <<"1", " ", " ", "2">>
    /\ call[1] = "_append"

----------------------------------------------------------------------------
(* C10 *)

\* C10: an unsuppressed text event inside pre, or with code as the current
\* element, appends the text with nothing squeezed or stripped, and every
\* line of the output that comes from the element begins with exactly one
\* added tab, also when the text arrives as several text events.
C10_PreVerbatimOneTab ==
    [][(ev'.kind = "text" /\ ~_ignore /\ InPreOrCode)
         => /\ IsPrefix(out, out')
            /\ LET added == SubSeq(out', Len(out) + 1, Len(out'))
               IN  /\ Untab(added) = ev'.data
                   /\ OneTabPerLine(out, added)]_vars

----------------------------------------------------------------------------
(* Summary extraction *)

HasNewsMark(line) == Contains(line, S_NewsMark)

\* The lines of the output that hold the marker, in their order.
NewsLines(o) == SelectSeq(split(o, <<>>), HasNewsMark)

SummaryPrinted == pc = "done" /\ stages[Len(stages)] = <<"print", <<>>, "--summary">>

\* C11: the summary print writes exactly the lines of the final output that
\* contain "[News]", in their original order, joined by newlines, and no
\* line without the marker.
C11_SummaryIsNewsLines ==
    SummaryPrinted => printed = <<join(NewsLines(out))>>

\* A summary of an output of at least three lines, one of which holds the
\* marker: that line alone is printed.
C11_Witness ==
    /\ SummaryPrinted
    /\ Len(split(out, <<>>)) >= 3
    /\ Len(NewsLines(out)) = 1
    /\ printed = NewsLines(out)

\* A summary of two marker lines separated by lines without the marker.
C11_WitnessOrder ==
    /\ SummaryPrinted
    /\ Len(NewsLines(out)) = 2
    /\ Len(split(out, <<>>)) >= 3
    /\ printed = <<NewsLines(out)[1] \o <<"\n">> \o NewsLines(out)[2]>>

----------------------------------------------------------------------------
(* The run *)

StageNames == [i \in DOMAIN stages |-> stages[i][1]]

Pipeline == <<"fetch", "parse", "fix_dates", "colorize", "print">>

\* The step left the fetch or the parse with an exception.
Failed ==
    \/ pc = "fetch" /\ stages' = stages
    \/ pc = "parse" /\ raised'

\* C12: output is emitted only after the fetch, the complete parse, the date
\* reformatting and the keyword colorization have finished, in that order;
\* a failure of the fetch or of the parse ends the run in the error state,
\* which no step leaves, with nothing emitted.
C12_EmitAfterPipeline ==
    [][/\ printed' # <<>> => StageNames' = Pipeline
       /\ Failed => pc' = "error"
       /\ pc' = "error" => printed' = <<>>
       /\ pc # "error"]_vars

\* A run that printed its output, dates reformatted and marker colorized.
C12_Witness ==
    /\ pc = "done"
    /\ printed # <<>>
    /\ Contains(printed[1], BLUE \o S_NewsMark \o RESET)
    /\ Contains(printed[1], <<" ", "[">> \o GREEN)

\* A parse that failed after output had been collected: nothing is printed.
C12_WitnessError == pc = "error" /\ raised /\ out # <<>> /\ printed = <<>>

----------------------------------------------------------------------------
(* Suppression and the context stack *)

\* The stack entry a close event pops is a div.right / div.sidebar.
PopsSuppressDiv ==
    _stack # <<>> /\ IsSuppressDiv(_stack[Len(_stack)][1], _stack[Len(_stack)][2])

\* C13: a close event resets the suppression flag exactly when the entry it
\* pops is a div with class right or sidebar, whatever the name of the
\* closing tag; a close that pops any other entry, or nothing, leaves the
\* flag unchanged.
C13_ResetIffSuppressDivPopped ==
    [][ev'.kind = "close" =>
          _ignore' = (IF PopsSuppressDiv THEN FALSE ELSE _ignore)]_vars

\* C14: a tag-open event pushes exactly one (tag, attributes) entry on the
\* context stack, and while the suppression flag is true it changes nothing
\* else: the output, the pre-formatted flag and the suppression flag keep
\* their values, whatever the tag and its class.
C14_OpenWhileSuppressedOnlyPushes ==
    [][ev'.kind = "open" =>
          /\ _stack' = Append(_stack, <<ev'.tag, ev'.attrs>>)
          /\ _ignore => UNCHANGED <<out, _inside_pre, _ignore>>]_vars

\* A pre opened while suppression is on: pushed, the pre-formatted flag
\* stays false.
C14_Witness ==
    /\ ev.kind = "open"
    /\ ev.tag = "pre"
    /\ _ignore
    /\ ~_inside_pre
    /\ Len(_stack) >= 2
    /\ _stack[Len(_stack)] = <<"pre", <<>>>>

----------------------------------------------------------------------------
(* The pre-formatted flag *)

\* A pre element is open on the context stack.
PreOpen == \E i \in DOMAIN _stack : _stack[i][1] = "pre"

\* C15: in every reachable state the pre-formatted flag is true exactly when
\* a pre element is open on the context stack (stated here for the streams
\* whose close events all name the innermost open element).
C15_PreFlagIffPreOpen == WellNested => (_inside_pre <=> PreOpen)

----------------------------------------------------------------------------
(* The output buffer *)

\* C16: during the conversion the output is append-only up to trailing
\* whitespace: for every tag-open, tag-close or text event, the output
\* before the event with its trailing whitespace removed is a prefix of the
\* output after the event.
C16_AppendOnlyUpToWhitespace ==
    [][ev'.kind \in {"open", "close", "text"} =>
          IsPrefix(rstrip(out, Whitespace), out')]_vars

\* The second of two closes in a row after a text: _append strips the blank
\* line the first close left and writes it again.
C16_Witness ==
    /\ run >= 2
    /\ ev.kind = "close"
    /\ call = <<"_append", <<"\n", "\n">>>>
    /\ Contains(out, <<"x">>)
    /\ TrailingNewlines(out) = 2

----------------------------------------------------------------------------
(* Colorization *)

Count(s, sub) ==
    Cardinality({i \in 1..(Len(s) - Len(sub) + 1) : SubSeq(s, i, i + Len(sub) - 1) = sub})

RECURSIVE Repeat(_, _)
Repeat(s, k) == IF k = 0 THEN <<>> ELSE s \o Repeat(s, k - 1)

\* The text without its escape sequences (from the escape character through
\* the letter m).
RECURSIVE StripCodes(_, _)
StripCodes(s, inside) ==
    IF s = <<>> THEN <<>>
    ELSE IF inside THEN StripCodes(Tail(s), s[1] # "m")
    ELSE IF s[1] = Esc THEN StripCodes(Tail(s), TRUE)
    ELSE <<s[1]>> \o StripCodes(Tail(s), FALSE)

ColorCode(color) ==
    IF color = "green" THEN GREEN ELSE IF color = "blue" THEN BLUE ELSE RED

\* o is o0 with every occurrence of keyword wrapped k times in the color's
\* escape sequence and the reset sequence, and nothing else changed.
Wrapped(o, o0, keyword, color, k) ==
    /\ StripCodes(o, FALSE) = o0
    /\ Count(o, keyword) = Count(o0, keyword)
    /\ Count(o, Repeat(ColorCode(color), k) \o keyword \o Repeat(RESET, k))
           = Count(o0, keyword)
    /\ Len(o) = Len(o0) + k * Count(o0, keyword) * (Len(ColorCode(color)) + Len(RESET))

\* The calls of colorize made so far all had the keyword and color of the last.
SameCalls ==
    \A i \in DOMAIN stages :
        stages[i][1] = "colorize" => stages[i] = stages[Len(stages)]

\* C17: for a color in {green, blue, red} and a keyword that occurs in the
\* output, one call of colorize wraps every occurrence of the keyword exactly
\* once and changes nothing else, and a second call with the same keyword and
\* color wraps every occurrence a second time, so that its result differs
\* from the result of the single call.
C17_ColorizeNotIdempotent ==
    [][(pc = "colorize" /\ stages' # stages) =>
          LET c == stages'[Len(stages')]
          IN  (/\ c[3] \in {"green", "blue", "red"}
               /\ Count(parsed[1], c[2]) >= 1
               /\ SameCalls')
              => /\ Wrapped(out', parsed[1], c[2], c[3], ColorizeCalls')
                 /\ out' # out]_vars

\* "[News]" colorized twice in blue.
C17_Witness ==
    /\ ColorizeCalls = 2
    /\ SameCalls
    /\ stages[Len(stages)] = <<"colorize", S_NewsMark, "blue">>
    /\ Contains(out, BLUE \o BLUE \o S_NewsMark \o RESET \o RESET)

----------------------------------------------------------------------------
(* Script text *)

\* C18: a text event whose current element is script leaves the output
\* unchanged, in every parser state, also when the pre-formatted flag is
\* true.
C18_ScriptTextDiscarded ==
    [][(ev'.kind = "text" /\ current_tag(_stack) = "script") => out' = out]_vars

----------------------------------------------------------------------------
(* Suppression on well-nested streams *)

\* The context stack holds a div with class right or sidebar.
SuppressDivOnStack ==
    \E i \in DOMAIN _stack : IsSuppressDiv(_stack[i][1], _stack[i][2])

\* C19: on a well-nested stream (every close names the element on top of
\* the stack), whenever the suppression flag is true the context stack holds
\* a div with class right or sidebar: suppression is never left on once all
\* such divs are closed.
C19_SuppressionNeedsOpenDiv == WellNested => (_ignore => SuppressDivOnStack)

\* A close inside a suppressed subtree: the flag stays on, its div is open.
C19_Witness ==
    /\ WellNested
    /\ ev.kind = "close"
    /\ _ignore
    /\ SuppressDivOnStack

----------------------------------------------------------------------------
(* The head of the output *)

\* C20: the output is empty or begins with a whitespace character (the first
\* append to an empty buffer is prefixed with a space or a tab), and no
\* event makes a non-empty output empty again.
C20_LeadingWhitespaceNeverEmptied ==
    [][/\ out' = <<>> \/ isspace(out'[1])
       /\ out # <<>> => out' # <<>>]_vars

\* An event whose append stripped the whole output, which was whitespace,
\* before it wrote its own text.
C20_Witness ==
    /\ nev >= 2
    /\ call[1] = "_append"
    /\ out # <<>>
    /\ Len(out) <= Len(call[2])
    /\ WhitespaceOnly(out)

====
